---- MODULE Spec2Model ----
(***************************************************************************)
(* The ilium character device (src/ilium.c): one shared, growable byte     *)
(* store (struct ilium_dev) behind one semaphore, with the file operations *)
(* ilium_write, ilium_read and ilium_llseek run by concurrent callers,     *)
(* each on its own open file (struct file, with its own f_pos).            *)
(*                                                                         *)
(* Each handler is split at the points where another caller can run:       *)
(* entry, down_interruptible, the body (for ilium_write: the offset check, *)
(* one iteration of the growth loop, one byte of copy_from_user, the       *)
(* bookkeeping), and the fail: label with its up().                        *)
(***************************************************************************)
EXTENDS Integers, Sequences, FiniteSets, TLC

\* ------------------------------------------------------------- bounds ----
\* PAGE_SIZE is the platform's page size (4096 on x86); the model scales it
\* down so that the store is small enough to enumerate.
PAGE_SIZE == 1
\* Total number of handler calls in one run.
MaxCalls == 3
\* The concurrent callers, each with its own open file; a caller writes its
\* own id as its byte pattern.
Procs == {1, 2}

\* ---------------------------------------------------------- constants ----
\* errno values the handlers return (negated)
EFAULT == 14
ERESTARTSYS == 512
\* the page allocator refuses any order of MAX_ORDER or more
MAX_ORDER == 11
\* ilium_init: "List initially has 2^5 pages"
InitPagesPow == 5
InitCapacity == PAGE_SIZE * (2 ^ InitPagesPow)

\* A byte read from outside the allocated region: whatever memory holds there.
Junk == 255

\* --------------------------------------------------------------- inputs --
\* count arguments of write and read (a size_t): nothing, one byte, and one
\* byte more than the initial capacity
Counts == {0, 1, InitCapacity + 1}
\* positions a caller passes explicitly (pread/pwrite: offp points at the
\* caller's own loff_t, not at filp->f_pos)
Positions == {0, 1, InitCapacity + 1}
\* off arguments of llseek
Deltas == {-1, 0, 1}
\* whence and off of llseek; SEEK_DATA stands for every whence the switch
\* has no case for (off is not read then)
SeekArgs == {[whence |-> w, off |-> d] : w \in {"SEEK_SET", "SEEK_CUR", "SEEK_END"}, d \in Deltas}
            \cup {[whence |-> "SEEK_DATA", off |-> 0]}

VARIABLES
    data,       \* ilium_dev.data: the region, index 0 .. capacity-1
    size,       \* ilium_dev.size
    capacity,   \* ilium_dev.capacity
    pages_pow,  \* ilium_dev.pages_pow
    sem,        \* ilium_dev.sem: the semaphore's count
    f_pos,      \* filp->f_pos of each caller's open file
    pc,         \* where each caller is in its handler
    call,       \* the arguments and locals of the call in progress
    ret,        \* retval of the call in progress, then the value it returned
    ubuf,       \* the user buffer the caller's read fills
    prev,       \* the last handler body that ran (history)
    ncalls      \* calls made so far (history, bounds the run)

vars == <<data, size, capacity, pages_pow, sem, f_pos, pc, call, ret, ubuf, prev, ncalls>>
store == <<data, size, capacity, pages_pow>>

\* Besides the arguments, a call holds the locals of ilium_write's growth
\* loop: tmp, what the last request for a region returned ("unset" outside
\* an iteration), and two notes on it: starved, whether that request met a
\* machine with no memory to give, and grown, the doublings made so far.
NoCall == [op |-> "none", ptr |-> "f_pos", pos |-> 0, count |-> 0, len |-> 0,
           whence |-> "SEEK_SET", off |-> 0, i |-> 0, tmp |-> "unset",
           grown |-> 0, starved |-> FALSE]
\* prev records the last handler body that ran: for a write, its caller, the
\* offset it stored at, len(data), the count it returned and the callers that
\* were waiting for the semaphore meanwhile; for a read, whether it read back
\* (same offset, same length) the write that ran just before it.
NoPrev == [op |-> "none", proc |-> 0, off |-> 0, len |-> 0, ret |-> 0, waiters |-> {},
           readback |-> FALSE]

\* *offp of the call in progress: filp->f_pos, or the caller's own position
Offp(p) == IF call[p].ptr = "f_pos" THEN f_pos[p] ELSE call[p].pos

\* ---------------------------------------------------------------- init ---
Init ==
    /\ pages_pow = InitPagesPow
    /\ size = 0
    /\ capacity = PAGE_SIZE * (2 ^ pages_pow)
    /\ data = [i \in 0 .. (capacity - 1) |-> 0]
    /\ sem = 1
    /\ f_pos = [p \in Procs |-> 0]
    /\ pc = [p \in Procs |-> "idle"]
    /\ call = [p \in Procs |-> NoCall]
    /\ ret = [p \in Procs |-> 0]
    /\ ubuf = [p \in Procs |-> << >>]
    /\ prev = NoPrev
    /\ ncalls = 0

\* ------------------------------------------------------------- helpers ---
\* How a handler is given its position: the plain read/write calls pass
\* &filp->f_pos, the positioned ones the caller's own loff_t.
PosArgs == {[ptr |-> "f_pos", pos |-> 0]} \cup {[ptr |-> "pos", pos |-> x] : x \in Positions}

\* *offp = v
SetOffp(p, v) ==
    /\ f_pos' = IF call[p].ptr = "f_pos" THEN [f_pos EXCEPT ![p] = v] ELSE f_pos
    /\ call' = [call EXCEPT ![p].pos = IF call[p].ptr = "pos" THEN v ELSE @]

\* __get_free_pages(GFP_KERNEL, order) on a machine that has (mem) or has not
\* the memory to give: TRUE for a region, FALSE for NULL.  An order the
\* allocator does not serve yields NULL whatever memory there is.
get_free_pages(order, mem) == mem /\ order < MAX_ORDER

\* Faulty variant of DownAcquire: the count is taken without waiting for it
\* to be positive.
DownAcquire_NoWait(p, next) ==
    /\ pc[p] = "down"
    /\ sem' = sem - 1
    /\ pc' = [pc EXCEPT ![p] = next]

\* down_interruptible(&dev->sem) returning 0: the count was positive
DownAcquire(p, next) ==
    /\ pc[p] = "down"
    /\ sem > 0
    /\ sem' = sem - 1
    /\ pc' = [pc EXCEPT ![p] = next]

\* Faulty variant of DownInterrupted: the interrupted call leaves through the
\* fail: label and its up().
DownInterrupted_Releases(p, err) ==
    /\ pc[p] = "down"
    /\ sem = 0
    /\ sem' = sem + 1
    /\ pc' = [pc EXCEPT ![p] = "idle"]
    /\ ret' = [ret EXCEPT ![p] = err]
    /\ call' = [call EXCEPT ![p] = NoCall]
    /\ prev' = [prev EXCEPT !.waiters = @ \ {p}]
    /\ UNCHANGED <<store, f_pos, ubuf, ncalls>>

\* down_interruptible(&dev->sem) returning non-zero: a signal arrived while
\* the caller slept on the semaphore (it sleeps only while the count is 0);
\* the handler returns err at once.
DownInterrupted(p, err) ==
    /\ pc[p] = "down"
    /\ sem = 0
    /\ pc' = [pc EXCEPT ![p] = "idle"]
    /\ ret' = [ret EXCEPT ![p] = err]
    /\ call' = [call EXCEPT ![p] = NoCall]
    /\ prev' = [prev EXCEPT !.waiters = @ \ {p}]
    /\ UNCHANGED <<store, sem, f_pos, ubuf, ncalls>>

\* A kernel fault inside the critical section: the task is killed where it
\* stands and never reaches up().
Oops(p) ==
    /\ pc' = [pc EXCEPT ![p] = "dead"]
    /\ prev' = NoPrev
    /\ UNCHANGED <<store, sem, f_pos, call, ret, ubuf, ncalls>>

\* ---------------------------------------------------------- ilium_write --
\* write(fd, buf, count) / pwrite(fd, buf, count, pos): the caller's buffer
\* holds count bytes of its pattern.  The VFS hands no negative position to
\* the handler.
WriteCall(p) ==
    /\ pc[p] = "idle"
    /\ ncalls < MaxCalls
    /\ \E a \in PosArgs, n \in Counts :
          /\ (a.ptr = "f_pos" => f_pos[p] >= 0)
          /\ call' = [call EXCEPT ![p] = [NoCall EXCEPT !.op = "write", !.ptr = a.ptr,
                                           !.pos = a.pos, !.count = n, !.len = n]]
    /\ pc' = [pc EXCEPT ![p] = "down"]
    /\ ret' = [ret EXCEPT ![p] = 0]
    /\ ubuf' = [ubuf EXCEPT ![p] = << >>]
    /\ ncalls' = ncalls + 1
    /\ UNCHANGED <<store, sem, f_pos, prev>>

WriteDown(p) ==
    /\ call[p].op = "write"
    /\ DownAcquire(p, "wcheck")
    /\ UNCHANGED <<store, f_pos, call, ret, ubuf, prev, ncalls>>

WriteInterrupted(p) ==
    /\ call[p].op = "write"
    /\ DownInterrupted(p, -ERESTARTSYS)

\* Faulty variant of WriteCheck: the offset failure returns at once instead
\* of going to fail:.
WriteCheck_ReturnsLocked(p) ==
    /\ pc[p] = "wcheck"
    /\ IF Offp(p) > size
          THEN /\ ret' = [ret EXCEPT ![p] = -EFAULT]
               /\ pc' = [pc EXCEPT ![p] = "idle"]
               /\ call' = [call EXCEPT ![p] = NoCall]
               /\ prev' = NoPrev
          ELSE /\ pc' = [pc EXCEPT ![p] = "grow"]
               /\ UNCHANGED <<ret, prev, call>>
    /\ UNCHANGED <<store, sem, f_pos, ubuf, ncalls>>

\* if (*offp > dev->size) { retval = -EFAULT; goto fail; }
WriteCheck(p) ==
    /\ pc[p] = "wcheck"
    /\ IF Offp(p) > size
          THEN /\ ret' = [ret EXCEPT ![p] = -EFAULT]
               /\ pc' = [pc EXCEPT ![p] = "up"]
               /\ prev' = NoPrev
          ELSE /\ pc' = [pc EXCEPT ![p] = "grow"]
               /\ UNCHANGED <<ret, prev>>
    /\ UNCHANGED <<store, sem, f_pos, call, ubuf, ncalls>>

\* The region after one successful doubling: memcpy of the first size bytes
\* (those past the old region are read out of bounds), then memset of
\* (capacity << 1) - size bytes from index size.
Grown(old, sz, cap) ==
    [i \in 0 .. (2 * cap - 1) |->
        IF i < sz THEN (IF i < cap THEN old[i] ELSE Junk) ELSE 0]

\* Variant of WriteGrow whose request names the order of the next size up,
\* pages_pow + 1, which the allocator serves when there is memory.
WriteGrow_OrderFromPagesPow(p) ==
    /\ pc[p] = "grow"
    /\ IF Offp(p) + call[p].count > capacity
          THEN \E mem \in BOOLEAN :
                  /\ call' = [call EXCEPT
                                 ![p].tmp = IF get_free_pages(pages_pow + 1, mem)
                                               THEN "region" ELSE "NULL",
                                 ![p].starved = ~mem]
                  /\ pc' = [pc EXCEPT ![p] = "resize"]
          ELSE /\ pc' = [pc EXCEPT ![p] = "copy"]
               /\ UNCHANGED call
    /\ UNCHANGED <<store, sem, f_pos, ret, ubuf, prev, ncalls>>

\* while (*offp + count > dev->capacity): one evaluation of the condition
\* and, when it holds, the request for a region of twice the capacity.
WriteGrow(p) ==
    /\ pc[p] = "grow"
    /\ IF Offp(p) + call[p].count > capacity
          THEN \E mem \in BOOLEAN :
                  /\ call' = [call EXCEPT
                                 ![p].tmp = IF get_free_pages(capacity * 2, mem)
                                               THEN "region" ELSE "NULL",
                                 ![p].starved = ~mem]
                  /\ pc' = [pc EXCEPT ![p] = "resize"]
          ELSE /\ pc' = [pc EXCEPT ![p] = "copy"]
               /\ UNCHANGED call
    /\ UNCHANGED <<store, sem, f_pos, ret, ubuf, prev, ncalls>>

\* The rest of the iteration: without a region the write is cut to what the
\* capacity holds and the loop is left; with one, the contents move over,
\* the old region is freed and the capacity doubles.
WriteResize(p) ==
    /\ pc[p] = "resize"
    /\ IF call[p].tmp = "NULL"
          THEN /\ call' = [call EXCEPT ![p].count = capacity - Offp(p),
                                       ![p].tmp = "unset", ![p].starved = FALSE]
               /\ pc' = [pc EXCEPT ![p] = "copy"]
               /\ UNCHANGED <<store, prev>>
          ELSE IF size > 2 * capacity
                  THEN /\ Oops(p)
                  ELSE /\ data' = Grown(data, size, capacity)
                       /\ capacity' = capacity * 2
                       /\ call' = [call EXCEPT ![p].grown = @ + 1,
                                               ![p].tmp = "unset", ![p].starved = FALSE]
                       /\ pc' = [pc EXCEPT ![p] = "grow"]
                       /\ UNCHANGED <<size, pages_pow, prev>>
    /\ UNCHANGED <<sem, f_pos, ret, ubuf, ncalls>>

\* Faulty variant of WriteCopy: the byte is counted but not stored.
WriteCopy_NoStore(p) ==
    /\ pc[p] = "copy"
    /\ call[p].i < call[p].count
    /\ call' = [call EXCEPT ![p].i = @ + 1]
    /\ UNCHANGED <<store, sem, f_pos, pc, ret, ubuf, prev, ncalls>>

\* Faulty variant of WriteCopy: the bytes are stored from the start of the
\* region instead of from *offp.
WriteCopy_FromStart(p) ==
    /\ pc[p] = "copy"
    /\ call[p].i < call[p].count
    /\ data' = [data EXCEPT ![call[p].i] = p]
    /\ call' = [call EXCEPT ![p].i = @ + 1]
    /\ UNCHANGED <<size, capacity, pages_pow, sem, f_pos, pc, ret, ubuf, prev, ncalls>>

\* copy_from_user(dev->data + *offp, buf, count), one byte at a time
WriteCopy(p) ==
    /\ pc[p] = "copy"
    /\ call[p].i < call[p].count
    /\ data' = [data EXCEPT ![Offp(p) + call[p].i] = p]
    /\ call' = [call EXCEPT ![p].i = @ + 1]
    /\ UNCHANGED <<size, capacity, pages_pow, sem, f_pos, pc, ret, ubuf, prev, ncalls>>

\* Faulty variant of WriteAccount: size kept as the high-water mark of the
\* bytes stored.
WriteAccount_HighWater(p) ==
    /\ size' = IF Offp(p) + call[p].count > size THEN Offp(p) + call[p].count ELSE size
    /\ SetOffp(p, Offp(p) + call[p].count)
    /\ ret' = [ret EXCEPT ![p] = call[p].count]
    /\ pc' = [pc EXCEPT ![p] = "up"]
    /\ prev' = [op |-> "write", proc |-> p, off |-> Offp(p), len |-> call[p].len,
                ret |-> call[p].count, waiters |-> {q \in Procs : pc[q] = "down"},
                readback |-> FALSE]
    /\ UNCHANGED <<data, capacity, pages_pow, sem, ubuf, ncalls>>

\* dev->size += count; *offp += count; retval = count;
WriteAccount(p) ==
    /\ size' = size + call[p].count
    /\ SetOffp(p, Offp(p) + call[p].count)
    /\ ret' = [ret EXCEPT ![p] = call[p].count]
    /\ pc' = [pc EXCEPT ![p] = "up"]
    /\ prev' = [op |-> "write", proc |-> p, off |-> Offp(p), len |-> call[p].len,
                ret |-> call[p].count, waiters |-> {q \in Procs : pc[q] = "down"},
                readback |-> FALSE]
    /\ UNCHANGED <<data, capacity, pages_pow, sem, ubuf, ncalls>>

\* The copy is over.  A count left negative by the failed growth (capacity
\* below *offp) is a huge size_t: the copy either is refused whole, nothing
\* stored, or faults.
WriteFinish(p) ==
    /\ pc[p] = "copy"
    /\ call[p].i >= call[p].count
    /\ IF call[p].count < 0
          THEN \E fault \in BOOLEAN : IF fault THEN Oops(p) ELSE WriteAccount(p)
          ELSE WriteAccount(p)

\* fail: up(&dev->sem); return retval;
Up(p) ==
    /\ pc[p] = "up"
    /\ sem' = sem + 1
    /\ pc' = [pc EXCEPT ![p] = "idle"]
    /\ call' = [call EXCEPT ![p] = NoCall]
    /\ UNCHANGED <<store, f_pos, ret, ubuf, prev, ncalls>>

\* ----------------------------------------------------------- ilium_read --
\* read(fd, buf, count) / pread(fd, buf, count, pos)
ReadCall(p) ==
    /\ pc[p] = "idle"
    /\ ncalls < MaxCalls
    /\ \E a \in PosArgs, n \in Counts :
          /\ (a.ptr = "f_pos" => f_pos[p] >= 0)
          /\ call' = [call EXCEPT ![p] = [NoCall EXCEPT !.op = "read", !.ptr = a.ptr,
                                           !.pos = a.pos, !.count = n, !.len = n]]
    /\ pc' = [pc EXCEPT ![p] = "down"]
    /\ ret' = [ret EXCEPT ![p] = 0]
    /\ ubuf' = [ubuf EXCEPT ![p] = << >>]
    /\ ncalls' = ncalls + 1
    /\ UNCHANGED <<store, sem, f_pos, prev>>

ReadDown(p) ==
    /\ call[p].op = "read"
    /\ DownAcquire(p, "rbody")
    /\ UNCHANGED <<store, f_pos, call, ret, ubuf, prev, ncalls>>

ReadInterrupted(p) ==
    /\ call[p].op = "read"
    /\ DownInterrupted(p, -ERESTARTSYS)

\* if (*offp + count > dev->size) count = dev->size - *offp;
ReadCount(p) ==
    IF Offp(p) + call[p].count > size THEN size - Offp(p) ELSE call[p].count

\* copy_to_user(buf, dev->data + *offp, count): the bytes of the region, and
\* for an index past the region (size can pass capacity) what lies behind it
ReadBytes(p, n, behind) ==
    [j \in 1 .. n |-> IF Offp(p) + j - 1 < capacity THEN data[Offp(p) + j - 1] ELSE behind]

\* retval = count; *offp += count;
ReadDeliver(p, n, behind) ==
    /\ ubuf' = [ubuf EXCEPT ![p] = ReadBytes(p, n, behind)]
    /\ ret' = [ret EXCEPT ![p] = n]
    /\ SetOffp(p, Offp(p) + n)
    /\ pc' = [pc EXCEPT ![p] = "up"]
    /\ prev' = [NoPrev EXCEPT !.op = "read", !.proc = p, !.off = Offp(p),
                              !.len = call[p].len, !.ret = n,
                              !.readback = /\ prev.op = "write"
                                           /\ prev.off = Offp(p)
                                           /\ prev.len = call[p].len]
    /\ UNCHANGED <<store, sem, ncalls>>

\* The body of ilium_read, under the semaphore.  A read that runs past the
\* region returns the memory behind it, or faults.
ReadBody(p) ==
    /\ pc[p] = "rbody"
    /\ IF Offp(p) >= size
          THEN /\ ret' = [ret EXCEPT ![p] = -EFAULT]
               /\ pc' = [pc EXCEPT ![p] = "up"]
               /\ prev' = NoPrev
               /\ UNCHANGED <<store, sem, f_pos, call, ubuf, ncalls>>
          ELSE IF Offp(p) + ReadCount(p) > capacity
                  THEN \E behind \in {0, Junk, -1} :
                          IF behind = -1 THEN Oops(p)
                                         ELSE ReadDeliver(p, ReadCount(p), behind)
                  ELSE ReadDeliver(p, ReadCount(p), 0)

\* --------------------------------------------------------- ilium_llseek --
\* lseek(fd, off, whence); loff_t retval = -EFAULT;
SeekCall(p) ==
    /\ pc[p] = "idle"
    /\ ncalls < MaxCalls
    /\ \E a \in SeekArgs :
          call' = [call EXCEPT ![p] = [NoCall EXCEPT !.op = "llseek", !.whence = a.whence,
                                                    !.off = a.off]]
    /\ pc' = [pc EXCEPT ![p] = "down"]
    /\ ret' = [ret EXCEPT ![p] = -EFAULT]
    /\ ubuf' = [ubuf EXCEPT ![p] = << >>]
    /\ ncalls' = ncalls + 1
    /\ UNCHANGED <<store, sem, f_pos, prev>>

SeekDown(p) ==
    /\ call[p].op = "llseek"
    /\ DownAcquire(p, "seek")
    /\ UNCHANGED <<store, f_pos, call, ret, ubuf, prev, ncalls>>

\* if (down_interruptible(&devp->sem) != 0) return retval;
SeekInterrupted(p) ==
    /\ call[p].op = "llseek"
    /\ DownInterrupted(p, ret[p])

\* The position each case of the switch tests and, if it passes, assigns
SeekTarget(p) ==
    CASE call[p].whence = "SEEK_SET" -> call[p].off
      [] call[p].whence = "SEEK_CUR" -> f_pos[p] + call[p].off
      [] call[p].whence = "SEEK_END" -> size - 1 + call[p].off
      [] OTHER -> f_pos[p]

\* Faulty variant of SeekRefused: > where the code has >=.
SeekRefused_AllowsEnd(p) ==
    /\ call[p].whence \in {"SEEK_SET", "SEEK_CUR", "SEEK_END"}
    /\ SeekTarget(p) > size

\* The test of each case that jumps to fail; no case matches another whence
SeekRefused(p) ==
    /\ call[p].whence \in {"SEEK_SET", "SEEK_CUR", "SEEK_END"}
    /\ SeekTarget(p) >= size

\* Faulty variant of SeekBody: f_pos is assigned before the test.
SeekBody_AssignsFirst(p) ==
    /\ pc[p] = "seek"
    /\ f_pos' = [f_pos EXCEPT ![p] = SeekTarget(p)]
    /\ IF SeekRefused(p)
          THEN UNCHANGED ret
          ELSE ret' = [ret EXCEPT ![p] = SeekTarget(p)]
    /\ pc' = [pc EXCEPT ![p] = "up"]
    /\ prev' = NoPrev
    /\ UNCHANGED <<store, sem, call, ubuf, ncalls>>

\* The switch of ilium_llseek, under the semaphore
SeekBody(p) ==
    /\ pc[p] = "seek"
    /\ IF SeekRefused(p)
          THEN UNCHANGED <<f_pos, ret>>
          ELSE /\ f_pos' = [f_pos EXCEPT ![p] = SeekTarget(p)]
               /\ ret' = [ret EXCEPT ![p] = SeekTarget(p)]
    /\ pc' = [pc EXCEPT ![p] = "up"]
    /\ prev' = NoPrev
    /\ UNCHANGED <<store, sem, call, ubuf, ncalls>>

\* ------------------------------------------------------------------ next --
Next ==
    \E p \in Procs :
        \/ WriteCall(p)
        \/ WriteDown(p)
        \/ WriteInterrupted(p)
        \/ WriteCheck(p)
        \/ WriteGrow(p)
        \/ WriteResize(p)
        \/ WriteCopy(p)
        \/ WriteFinish(p)
        \/ ReadCall(p)
        \/ ReadDown(p)
        \/ ReadInterrupted(p)
        \/ ReadBody(p)
        \/ SeekCall(p)
        \/ SeekDown(p)
        \/ SeekInterrupted(p)
        \/ SeekBody(p)
        \/ Up(p)

Spec == Init /\ [][Next]_vars

\* A step of the caller inside its handler, between down_interruptible and
\* the return after up.
HolderStep(p) ==
    \/ WriteCheck(p)
    \/ WriteGrow(p)
    \/ WriteResize(p)
    \/ WriteCopy(p)
    \/ WriteFinish(p)
    \/ ReadBody(p)
    \/ SeekBody(p)
    \/ Up(p)

\* The scheduler runs a task that is runnable: a caller inside its handler
\* does not sleep, so its next step is taken in the end.
FairSpec == Spec /\ WF_vars(\E p \in Procs : HolderStep(p))

\* ================================================================ claims ==

\* The range lo .. lo+n-1 of the region holds only caller b's pattern byte.
RunOf(lo, n, b) == \A j \in lo .. (lo + n - 1) : j \in DOMAIN data /\ data[j] = b

\* Within lo .. lo+n-1 the bytes of caller b's pattern are next to each
\* other: no other byte lies between two of them.
Contiguous(lo, n, b) ==
    \A j1, j3 \in lo .. (lo + n - 1) :
        (j1 < j3 /\ data[j1] = b /\ data[j3] = b) => \A j2 \in j1 .. j3 : data[j2] = b

\* The callers that hold the semaphore: past down_interruptible, not yet
\* through up().
Holders == {p \in Procs : pc[p] \notin {"idle", "down"}}

\* --------------------------------------------------------------------------
\* C1: in every reachable state the store's size is at most its capacity.
C1_SizeWithinCapacity == size <= capacity

\* --------------------------------------------------------------------------
\* C2 (as stated): at most one call is between acquiring and releasing the
\* semaphore, and when two concurrent Write calls have both stored their
\* bytes, the bytes of each call lie in one unbroken run, no byte of the
\* other call between them.  The state looked at is the second writer p
\* done copying, the first writer's call (prev) having run while p waited.
C2_RunsUnmixedAfterAllCalls ==
    /\ Cardinality(Holders) <= 1
    /\ \A p \in Procs :
          ( /\ call[p].op = "write" /\ pc[p] = "copy"
            /\ call[p].count > 0 /\ call[p].i >= call[p].count
            /\ prev.op = "write" /\ prev.proc # p /\ p \in prev.waiters
            /\ prev.ret > 0 )
          => /\ RunOf(Offp(p), call[p].count, p)
             /\ Contiguous(prev.off, prev.ret, prev.proc)

\* C2 (amended): at most one call is between acquiring and releasing the
\* semaphore; the bytes a Write has stored so far are an unbroken run of its
\* own pattern at every moment of its copy, and its whole written range is
\* such a run when it releases the semaphore.  (A Write that acquires the
\* semaphore later may store inside that range.)
C2_GateSerialisesWrites ==
    /\ Cardinality(Holders) <= 1
    /\ \A p \in Procs :
          /\ (call[p].op = "write" /\ pc[p] = "copy")
                => RunOf(Offp(p), call[p].i, p)
          /\ (call[p].op = "write" /\ pc[p] = "up" /\ ret[p] > 0)
                => RunOf(Offp(p) - ret[p], ret[p], p)

\* Two Write calls in flight at once: one has stored a run of many bytes
\* behind a byte of the other caller and is about to release, the other
\* waits for the semaphore with bytes to write.
C2_Witness ==
    \E p, q \in Procs :
        /\ p # q
        /\ call[p].op = "write" /\ pc[p] = "up" /\ ret[p] = InitCapacity - 1
        /\ call[q].op = "write" /\ pc[q] = "down" /\ call[q].count > 0
        /\ \E j \in DOMAIN data : data[j] = q

\* --------------------------------------------------------------------------
\* C3 (as stated): a Read of len(data) bytes at the offset of the Write that
\* ran just before it and succeeded (returned a count, not an error) returns
\* len(data) bytes equal to data.
C3_ReadAfterWrite ==
    [][\A p \in Procs :
          ( /\ pc[p] = "rbody" /\ pc'[p] = "up"
            /\ prev.op = "write" /\ prev.ret >= 0
            /\ Offp(p) = prev.off /\ call[p].count = prev.len )
          => /\ ret'[p] = prev.len
             /\ ubuf'[p] = [j \in 1 .. prev.len |-> prev.proc]]_vars

\* C3 (amended): the same, for a Write that returned len(data) (nothing was
\* truncated) and whose offset is below size afterwards (as it is whenever
\* data is not empty).
C3_ReadAfterFullWrite ==
    [][\A p \in Procs :
          ( /\ pc[p] = "rbody" /\ pc'[p] = "up"
            /\ prev.op = "write" /\ prev.ret = prev.len /\ prev.off < size
            /\ Offp(p) = prev.off /\ call[p].count = prev.len )
          => /\ ret'[p] = prev.len
             /\ ubuf'[p] = [j \in 1 .. prev.len |-> prev.proc]]_vars

\* A caller has read back, at offset 1, the byte the other caller had just
\* written there over a store that held other bytes.
C3_Witness ==
    \E p \in Procs :
        /\ call[p].op = "read" /\ pc[p] = "up"
        /\ prev.op = "read" /\ prev.readback /\ prev.off = 1 /\ prev.ret = 1
        /\ ret[p] = 1 /\ ubuf[p] # <<p>> /\ ubuf[p] # <<0>>
        /\ data[0] # ubuf[p][1]

\* --------------------------------------------------------------------------
\* C4: a Read at an offset >= size fails with -EFAULT; a Write at an offset
\* > size fails with -EFAULT; a Write at offset = size succeeds (it returns
\* a count).
C4_Bounds ==
    [][\A p \in Procs :
          /\ (pc[p] = "rbody" /\ pc'[p] # "rbody" /\ Offp(p) >= size)
                => (pc'[p] = "up" /\ ret'[p] = -EFAULT)
          /\ (pc[p] = "wcheck" /\ pc'[p] # "wcheck" /\ Offp(p) > size)
                => (pc'[p] = "up" /\ ret'[p] = -EFAULT)
          /\ (pc[p] = "wcheck" /\ pc'[p] # "wcheck" /\ Offp(p) = size)
                => pc'[p] = "grow"
          /\ (call[p].op = "write" /\ pc[p] = "copy" /\ pc'[p] # "copy" /\ Offp(p) = size)
                => (pc'[p] = "up" /\ ret'[p] >= 0)]_vars

C6_InterruptedReturnsRestart ==
    [][\A p \in Procs : (pc[p] = "down" /\ pc'[p] = "idle") => ret'[p] = -ERESTARTSYS]_vars

\* --------------------------------------------------------------------------
\* C7: neither entering a handler nor leaving it on an interrupted wait
\* changes size, capacity, the region, any cursor or the semaphore.
C7_InterruptedChangesNothing ==
    [][\A p \in Procs :
          (pc[p] \in {"idle", "down"} /\ pc'[p] \in {"idle", "down"} /\ pc'[p] # pc[p])
          => UNCHANGED <<data, size, capacity, pages_pow, f_pos, sem>>]_vars

\* A Read or Write came back interrupted while the other caller holds the
\* semaphore over a store that is not empty.
C7_Witness ==
    \E p, q \in Procs :
        /\ pc[p] = "idle" /\ ret[p] = -ERESTARTSYS
        /\ pc[q] \notin {"idle", "down"} /\ sem = 0 /\ size > 0

\* --------------------------------------------------------------------------
\* C8: the semaphore is free exactly when no call is between its successful
\* down_interruptible and its up(): every call that returned after acquiring
\* it has released it once, an interrupted call never.
C8_GateReleasedOncePerCall ==
    /\ sem = 1 - Cardinality(Holders)
    /\ sem \in {0, 1}

\* Both callers are back, one from a truncated Write and one from a call
\* that failed with -EFAULT, and the semaphore is free.
C8_Witness ==
    \E p, q \in Procs :
        /\ pc[p] = "idle" /\ pc[q] = "idle"
        /\ ret[p] = InitCapacity /\ ret[q] = -EFAULT
        /\ size = InitCapacity /\ sem = 1

\* --------------------------------------------------------------------------
\* C9: Seek's position is off for SEEK_SET, cursor + off for SEEK_CUR and
\* size - 1 + off for SEEK_END; below size it becomes the cursor and the
\* return value, at or past size the call returns -EFAULT.
C9_SeekPosition ==
    [][\A p \in Procs :
          (pc[p] = "seek" /\ pc'[p] = "up"
              /\ call[p].whence \in {"SEEK_SET", "SEEK_CUR", "SEEK_END"})
          => LET position == CASE call[p].whence = "SEEK_SET" -> call[p].off
                               [] call[p].whence = "SEEK_CUR" -> f_pos[p] + call[p].off
                               [] call[p].whence = "SEEK_END" -> size - 1 + call[p].off
             IN  IF position < size
                    THEN f_pos'[p] = position /\ ret'[p] = position
                    ELSE ret'[p] = -EFAULT]_vars

\* A SEEK_END with off = -1 on a full store has set the cursor to size - 2.
C9_Witness ==
    \E p \in Procs :
        /\ call[p].op = "llseek" /\ pc[p] = "up"
        /\ call[p].whence = "SEEK_END" /\ call[p].off = -1
        /\ size = InitCapacity /\ ret[p] = size - 2 /\ f_pos[p] = size - 2

\* --------------------------------------------------------------------------
\* C10: a Seek whose position is not below size leaves every cursor, size,
\* capacity and the region as they were.
C10_FailedSeekChangesNothing ==
    [][\A p \in Procs :
          (pc[p] = "seek" /\ pc'[p] = "up"
              /\ call[p].whence \in {"SEEK_SET", "SEEK_CUR", "SEEK_END"}
              /\ (CASE call[p].whence = "SEEK_SET" -> call[p].off
                    [] call[p].whence = "SEEK_CUR" -> f_pos[p] + call[p].off
                    [] call[p].whence = "SEEK_END" -> size - 1 + call[p].off) >= size)
          => UNCHANGED <<f_pos, data, size, capacity, pages_pow>>]_vars

\* A SEEK_CUR by one from the last byte of a store that is not empty was
\* refused and the cursor is still on the last byte.
C10_Witness ==
    \E p \in Procs :
        /\ call[p].op = "llseek" /\ pc[p] = "up"
        /\ call[p].whence = "SEEK_CUR" /\ call[p].off = 1
        /\ ret[p] = -EFAULT /\ size > 0 /\ f_pos[p] = size - 1


\* --------------------------------------------------------------------------
\* C11: a Write whose requests for a larger region meet a machine that has
\* the memory doubles the capacity at each of them and goes round the loop
\* again, so that it leaves the loop, its length uncut, with the smallest
\* doubling of the capacity that holds offset + len(data).
C11_GrowsToFitWriteEnd ==
    [][\A p \in Procs :
          /\ (pc[p] = "resize" /\ pc'[p] # "resize" /\ ~call[p].starved)
                => /\ capacity' = 2 * capacity
                   /\ pc'[p] = "grow"
                   /\ call'[p].count = call[p].len
          /\ (pc[p] = "grow" /\ pc'[p] = "copy")
                => /\ Offp(p) + call[p].len <= capacity
                   /\ call[p].grown > 0 => capacity \div 2 < Offp(p) + call[p].len]_vars


\* --------------------------------------------------------------------------
\* C12: when the end of a Write lies past the capacity but within twice the
\* capacity and the machine has the memory, the one request doubles the
\* capacity, the loop is left at its next test and the call returns the
\* whole length.
C12_OneBoundaryOneDoubling ==
    [][\A p \in Procs :
          LET end == Offp(p) + call[p].len
          IN  /\ ( /\ pc[p] = "resize" /\ pc'[p] # "resize"
                   /\ ~call[p].starved /\ call[p].grown = 0
                   /\ capacity < end /\ end <= 2 * capacity )
                    => /\ capacity' = 2 * capacity
                       /\ call'[p].grown = 1
                       /\ call'[p].count = call[p].len
              /\ ( /\ call[p].op = "write" /\ pc[p] = "grow" /\ call[p].grown = 1
                   /\ end <= capacity )
                    => pc'[p] = "copy"
              /\ ( /\ call[p].op = "write" /\ pc[p] = "copy" /\ pc'[p] = "up"
                   /\ call[p].grown = 1 /\ call[p].count = call[p].len )
                    => (ret'[p] = call[p].len /\ capacity = 2 * InitCapacity)]_vars

\* --------------------------------------------------------------------------
\* C13: while a Write cut short by a refused request for a larger region is
\* in progress, no step changes a byte of the region outside the range the
\* call stores, offset up to offset + the cut count, and the region keeps
\* its extent.
C13_FailedGrowthKeepsBytes ==
    [][\A p \in Procs :
          ( /\ call[p].op = "write" /\ pc[p] \in {"resize", "copy"}
            /\ call'[p].count # call'[p].len )
             => /\ DOMAIN data' = DOMAIN data
                /\ \A j \in DOMAIN data :
                      (j < Offp(p) \/ j >= Offp(p) + call'[p].count)
                         => data'[j] = data[j]]_vars

\* A write of more than the capacity at offset 1 was cut to capacity - 1
\* bytes and stored, and the other caller's byte at index 0 is still there.
C13_Witness ==
    \E p, q \in Procs :
        /\ p # q
        /\ call[p].op = "write" /\ pc[p] = "up"
        /\ prev.op = "write" /\ prev.proc = p /\ prev.off = 1
        /\ prev.len = InitCapacity + 1 /\ prev.ret = InitCapacity - 1
        /\ data[0] = q /\ RunOf(1, InitCapacity - 1, p)

\* --------------------------------------------------------------------------
\* C14: when the request for a larger region is refused, the loop is left
\* with the capacity as it was and the count set to capacity - offset, a
\* number from 0 to len(data), and that count is what the call returns.
C14_FailedGrowthTruncates ==
    [][\A p \in Procs :
          /\ (pc[p] = "resize" /\ pc'[p] # "resize" /\ call[p].tmp = "NULL")
                => /\ pc'[p] = "copy"
                   /\ capacity' = capacity
                   /\ call'[p].count = capacity - Offp(p)
                   /\ 0 <= call'[p].count /\ call'[p].count <= call[p].len
          /\ ( /\ call[p].op = "write" /\ pc[p] = "copy" /\ pc'[p] = "up"
               /\ call[p].count # call[p].len )
                => (ret'[p] = call[p].count /\ capacity' = capacity)]_vars


\* --------------------------------------------------------------------------
\* C15: a doubling leaves the first size bytes of the old region in place
\* and zeroes from index size to the new capacity, and every byte a Read
\* hands to its caller is zero or a byte some Write stored.
C15_GrowthZeroFillsNoStaleRead ==
    [][/\ \A p \in Procs :
             (pc[p] = "resize" /\ capacity' # capacity)
                => /\ DOMAIN data' = 0 .. (capacity' - 1)
                   /\ \A j \in DOMAIN data' :
                         data'[j] = IF j < size /\ j \in DOMAIN data THEN data[j] ELSE 0
       /\ \A p \in Procs :
             \A j \in DOMAIN ubuf'[p] : ubuf'[p][j] \in {0} \cup Procs]_vars

\* --------------------------------------------------------------------------
\* C16: a Read at an offset below size that returns hands over
\* min(length, size - offset) bytes, those of the region from the offset
\* on, moves its own position by that number and no other caller's, and
\* leaves size, capacity and the region as they were.
C16_ReadReturnsStoredBytes ==
    [][\A p \in Procs :
          (pc[p] = "rbody" /\ pc'[p] = "up" /\ Offp(p) < size)
             => LET n == IF call[p].len < size - Offp(p) THEN call[p].len
                                                         ELSE size - Offp(p)
                IN  /\ ret'[p] = n
                    /\ DOMAIN ubuf'[p] = 1 .. n
                    /\ \A j \in 1 .. n : /\ Offp(p) + j - 1 \in DOMAIN data
                                         /\ ubuf'[p][j] = data[Offp(p) + j - 1]
                    /\ IF call[p].ptr = "f_pos"
                          THEN f_pos'[p] = f_pos[p] + n
                          ELSE call'[p].pos = call[p].pos + n /\ f_pos'[p] = f_pos[p]
                    /\ \A q \in Procs \ {p} : f_pos'[q] = f_pos[q]
                    /\ store' = store]_vars


C18_CursorWithinSize == \A p \in Procs : 0 <= f_pos[p] /\ f_pos[p] <= size

\* --------------------------------------------------------------------------
\* C19: no step lowers size, and every call touches the region only at
\* indexes from 0 to capacity - 1: a read's bytes and a write's bytes lie
\* in it, and no call faults.
C19_SizeMonotoneAccessInRegion ==
    [][/\ size' >= size
       /\ \A p \in Procs :
             /\ pc'[p] # "dead"
             /\ (pc[p] = "rbody" /\ pc'[p] = "up" /\ ret'[p] > 0)
                   => (0 <= Offp(p) /\ Offp(p) + ret'[p] <= capacity)
             /\ (call[p].op = "write" /\ pc[p] = "copy" /\ pc'[p] = "up")
                   => /\ 0 <= call[p].count
                      /\ call[p].count > 0
                            => (0 <= Offp(p) /\ Offp(p) + call[p].count <= capacity)]_vars

\* --------------------------------------------------------------------------
\* C20: a caller that holds the semaphore is in the end back from its call,
\* the semaphore released.
C20_GateEventuallyReleased ==
    \A p \in Procs : (pc[p] \notin {"idle", "down"}) ~> (pc[p] = "idle")

====
